---- MODULE Spec2Model ----
(***************************************************************************)
(* Model of pydwdapi.py: the HTML table parser, the normalisation of the   *)
(* DWD observation table into records, the cache in PyDWDApi.query and the *)
(* HTTP handler that serves interpolated values.                           *)
(*                                                                         *)
(* Texts are sequences of one-character strings, so that strip, join and   *)
(* float() are computed and not assumed.  Numbers are exact rationals      *)
(* <<numerator, denominator>> in lowest terms; NaN is <<0, 0>>.  The f4      *)
(* rounding of the record array is not modelled.                           *)
(***************************************************************************)
EXTENDS Integers, Sequences, FiniteSets, TLC

VARIABLES
    parser,     \* the HTMLTableParser object fed by the parser specification
    doc,        \* the markup fed so far, as the structure its tags describe
    tbl,        \* the table handed to the normalisation
    res,        \* the record array the normalisation produced
    now,                        \* time.time()
    current_data,               \* PyDWDApi.current_data
    current_data_modification,  \* PyDWDApi.current_data_modification
    th,         \* per caller: position in query()/do_GET() and their locals
    last_refresh, \* time.time() read by the latest call that stored a refresh
    refreshed,  \* the (res, modify) of every call that stored a refresh
    remote      \* which answers of the Remote Data Source are drawn from

parserVars == <<parser, doc>>
normVars == <<tbl, res>>
apiVars == <<now, current_data, current_data_modification, th, last_refresh,
             refreshed, remote>>
vars == <<parser, doc, tbl, res, now, current_data, current_data_modification,
          th, last_refresh, refreshed, remote>>

\* Python's None where the other values are strings (header names, tags)
None == "None"

\* An optional value: PyNone is Python's None, Some(x) is the object x.
PyNone == <<>>
Some(x) == <<x>>

-----------------------------------------------------------------------------
(* PyDWDApi.__init__ and the callers of the object                          *)

\* self.timeout, in seconds
timeout == 30 * 60

\* The callers of a server that handles one request at a time, and those of
\* an object that two threads use.
OneCaller == {1}
TwoCallers == {1, 2}

\* The wall clock when the object is constructed.
StartTime == 2 * timeout

\* What a function returns: a value, or an exception that leaves it.
Value(v) == [kind |-> "value", val |-> v]
Raised == [kind |-> "raise", val |-> PyNone]

\* A caller outside any call; the fields are the locals of query() and
\* do_GET() (t_now is query's local `now`, fetched the name given to RETR).
IdleCaller ==
    [pc |-> "idle", kind |-> None, stage |-> None, k |-> 0,
     t_now |-> 0, ls |-> PyNone, most_recent |-> PyNone, fetched |-> PyNone,
     tables |-> PyNone, res |-> PyNone, ret |-> Value(PyNone),
     dt |-> 0, data |-> PyNone, vals |-> <<>>, resp |-> PyNone]

ApiInit(callers, answers) ==
    /\ now = StartTime
    /\ current_data = PyNone
    /\ current_data_modification = 0
    /\ th = [t \in callers |-> IdleCaller]
    /\ last_refresh = -1
    /\ refreshed = {}
    /\ remote = answers

ApiAtStart == ApiInit(OneCaller, "all")

-----------------------------------------------------------------------------
(* Text helpers: str.strip, str.join                                        *)

IsSpace(c) == c \in {" ", "\n"}

RECURSIVE LStrip(_)
LStrip(s) ==
    IF s = <<>> THEN s
    ELSE IF IsSpace(Head(s)) THEN LStrip(Tail(s)) ELSE s

RECURSIVE RStrip(_)
RStrip(s) ==
    IF s = <<>> THEN s
    ELSE IF IsSpace(s[Len(s)]) THEN RStrip(SubSeq(s, 1, Len(s) - 1)) ELSE s

Strip(s) == RStrip(LStrip(s))

RECURSIVE Join(_, _)
Join(sep, parts) ==
    IF parts = <<>> THEN <<>>
    ELSE IF Len(parts) = 1 THEN parts[1]
    ELSE parts[1] \o sep \o Join(sep, Tail(parts))

-----------------------------------------------------------------------------
(* HTMLTableParser                                                          *)

data_separator == <<" ">>

NewParser ==
    [in_td |-> FALSE, in_th |-> FALSE,
     current_table |-> <<>>, current_row |-> <<>>, current_cell |-> <<>>,
     tables |-> <<>>]

handle_starttag(p, tag) ==
    [p EXCEPT !.in_td = IF tag = "td" THEN TRUE ELSE @,
              !.in_th = IF tag = "th" THEN TRUE ELSE @]

handle_data_unguarded(p, data) ==
    [p EXCEPT !.current_cell = Append(@, Strip(data))]

handle_data(p, data) ==
    IF p.in_td \/ p.in_th
    THEN [p EXCEPT !.current_cell = Append(@, Strip(data))]
    ELSE p

handle_endtag(p, tag) ==
    LET q == [p EXCEPT !.in_td = IF tag = "td" THEN FALSE ELSE @,
                       !.in_th = IF tag = "th" THEN FALSE ELSE @]
    IN  IF tag \in {"td", "th"}
        THEN [q EXCEPT !.current_row =
                           Append(@, Strip(Join(data_separator, q.current_cell))),
                       !.current_cell = <<>>]
        ELSE IF tag = "tr"
        THEN [q EXCEPT !.current_table = Append(@, q.current_row),
                       !.current_row = <<>>]
        ELSE IF tag = "table"
        THEN [q EXCEPT !.tables = Append(@, q.current_table),
                       !.current_table = <<>>]
        ELSE q

\* One parser event, as HTMLParser.feed dispatches it.
Dispatch(p, ev) ==
    IF ev.type = "start" THEN handle_starttag(p, ev.arg)
    ELSE IF ev.type = "end" THEN handle_endtag(p, ev.arg)
    ELSE handle_data(p, ev.arg)

\* (the test of q's fields makes TLC evaluate q before the next event, which
\* keeps the evaluation shallow; it is always true)
RECURSIVE FeedFrom(_, _)
FeedFrom(p, events) ==
    IF events = <<>> THEN p
    ELSE LET q == Dispatch(p, Head(events))
         IN  IF DOMAIN q = DOMAIN NewParser
             THEN FeedFrom(q, Tail(events))
             ELSE q

\* p = HTMLTableParser(); p.feed(content); p.tables
ParseTables(events) == FeedFrom(NewParser, events).tables

-----------------------------------------------------------------------------
(* Parser specification: the parser is fed one well-formed event at a time. *)

MaxEvents == 9

\* Text fragments the markup may contain.
Fragments == { <<"a">>, <<"a", " ">>, <<" ", "b">> }
OutsideText == <<"x">>

NewDoc ==
    [ctx |-> "top", kind |-> None, n |-> 0, outside |-> 0,
     tables |-> <<>>, table |-> <<>>, row |-> <<>>, cell |-> <<>>]

InitParser ==
    /\ parser = NewParser
    /\ doc = NewDoc
    /\ tbl = PyNone
    /\ res = PyNone
    /\ ApiAtStart

\* <table>, <tr>, <td> or <th>, where the markup's nesting allows it
PStartTag(tag) ==
    /\ doc.n < MaxEvents
    /\ \/ tag = "table" /\ doc.ctx = "top"
       \/ tag = "tr" /\ doc.ctx = "table"
       \/ tag \in {"td", "th"} /\ doc.ctx = "row"
    /\ parser' = handle_starttag(parser, tag)
    /\ doc' = [doc EXCEPT !.n = @ + 1,
                          !.ctx = CASE tag = "table" -> "table"
                                    [] tag = "tr" -> "row"
                                    [] OTHER -> "cell",
                          !.kind = IF tag \in {"td", "th"} THEN tag ELSE @]
    /\ UNCHANGED <<normVars, apiVars>>

\* text inside a cell
PDataInCell(d) ==
    /\ doc.n < MaxEvents
    /\ doc.ctx = "cell"
    /\ parser' = handle_data(parser, d)
    /\ doc' = [doc EXCEPT !.n = @ + 1, !.cell = Append(@, d)]
    /\ UNCHANGED <<normVars, apiVars>>

\* text outside any cell
PDataOutside ==
    /\ doc.n < MaxEvents
    /\ doc.ctx # "cell"
    /\ parser' = handle_data(parser, OutsideText)
    /\ doc' = [doc EXCEPT !.n = @ + 1, !.outside = 1]
    /\ UNCHANGED <<normVars, apiVars>>

\* </td>, </th>, </tr> or </table>, closing the innermost open element
PEndTag(tag) ==
    /\ doc.n < MaxEvents
    /\ \/ tag = "table" /\ doc.ctx = "table"
       \/ tag = "tr" /\ doc.ctx = "row"
       \/ tag \in {"td", "th"} /\ doc.ctx = "cell" /\ doc.kind = tag
    /\ parser' = handle_endtag(parser, tag)
    /\ doc' = CASE tag = "table" ->
                     [doc EXCEPT !.n = @ + 1, !.ctx = "top",
                                 !.tables = Append(@, doc.table), !.table = <<>>]
                [] tag = "tr" ->
                     [doc EXCEPT !.n = @ + 1, !.ctx = "table",
                                 !.table = Append(@, doc.row), !.row = <<>>]
                [] OTHER ->
                     [doc EXCEPT !.n = @ + 1, !.ctx = "row", !.kind = None,
                                 !.row = Append(@, doc.cell), !.cell = <<>>]
    /\ UNCHANGED <<normVars, apiVars>>

NextParser ==
    \/ \E tag \in {"table", "tr", "td", "th"} : PStartTag(tag)
    \/ \E d \in Fragments : PDataInCell(d)
    \/ PDataOutside
    \/ \E tag \in {"table", "tr", "td", "th"} : PEndTag(tag)

SpecParser == InitParser /\ [][NextParser]_vars

\* The text a cell has by the claim: fragments joined, then trimmed.
CellJoinedThenTrimmed(frags) == Strip(Join(data_separator, frags))

\* The text a cell has with every fragment trimmed before the join.
CellTrimmedJoinedTrimmed(frags) ==
    Strip(Join(data_separator, [i \in 1..Len(frags) |-> Strip(frags[i])]))

RowsAsReported(rows, Cell(_)) ==
    [r \in 1..Len(rows) |-> [c \in 1..Len(rows[r]) |-> Cell(rows[r][c])]]

TablesAsReported(tabs, Cell(_)) ==
    [t \in 1..Len(tabs) |-> RowsAsReported(tabs[t], Cell)]

\* C9 (as claimed): every reported table has the rows of the markup's table,
\* in order, and every cell is its fragments joined by the separator and then
\* trimmed; text outside cells is in no cell.
C9_Original ==
    /\ parser.tables = TablesAsReported(doc.tables, CellJoinedThenTrimmed)
    /\ parser.current_table = RowsAsReported(doc.table, CellJoinedThenTrimmed)

\* C9 (amended): every reported table has exactly the rows of the markup's
\* table, in order, and every cell's text is its fragments, each trimmed,
\* joined by the separator and trimmed again; text seen outside any cell is in
\* no cell.
C9_RowsAndCells ==
    /\ parser.tables = TablesAsReported(doc.tables, CellTrimmedJoinedTrimmed)
    /\ parser.current_table = RowsAsReported(doc.table, CellTrimmedJoinedTrimmed)
    /\ parser.current_row =
           [c \in 1..Len(doc.row) |-> CellTrimmedJoinedTrimmed(doc.row[c])]
    /\ \A t \in 1..Len(parser.tables) :
           Len(parser.tables[t]) = Len(doc.tables[t])

\* A closed table with a cell of two fragments, after text outside a cell.
C9_Witness ==
    /\ Len(parser.tables) >= 1
    /\ doc.outside = 1
    /\ \E r \in 1..Len(doc.tables[1]) :
           \E c \in 1..Len(doc.tables[1][r]) : Len(doc.tables[1][r][c]) = 2

-----------------------------------------------------------------------------
(* Numbers: exact rationals, NaN, float()                                   *)

NaN == <<0, 0>>
IsNaN(x) == x[2] = 0

Abs(n) == IF n < 0 THEN -n ELSE n

RECURSIVE GCD(_, _)
GCD(a, b) == IF b = 0 THEN a ELSE GCD(b, a % b)

\* n/d in lowest terms, d > 0
Rat(n, d) ==
    LET g == GCD(Abs(n), d)
    IN  IF g = 0 THEN <<0, 1>> ELSE <<n \div g, d \div g>>

Num(n) == <<n, 1>>

Mul(a, b) ==
    IF IsNaN(a) \/ IsNaN(b) THEN NaN ELSE Rat(a[1] * b[1], a[2] * b[2])

Digits == {"0", "1", "2", "3", "4", "5", "6", "7", "8", "9"}

DigitVal(c) ==
    CASE c = "0" -> 0 [] c = "1" -> 1 [] c = "2" -> 2 [] c = "3" -> 3
      [] c = "4" -> 4 [] c = "5" -> 5 [] c = "6" -> 6 [] c = "7" -> 7
      [] c = "8" -> 8 [] c = "9" -> 9

RECURSIVE DigitsVal(_, _)
DigitsVal(acc, s) ==
    IF s = <<>> THEN acc ELSE DigitsVal(10 * acc + DigitVal(Head(s)), Tail(s))

RECURSIVE Pow10(_)
Pow10(k) == IF k = 0 THEN 1 ELSE 10 * Pow10(k - 1)

\* float(s) on texts of signs, digits, one point and surrounding blanks;
\* any other text raises ValueError (ok = FALSE).
ParseFloat(s) ==
    LET t     == Strip(s)
        sgn   == t # <<>> /\ Head(t) \in {"-", "+"}
        body  == IF sgn THEN Tail(t) ELSE t
        dots  == {i \in 1..Len(body) : body[i] = "."}
        dot   == IF dots = {} THEN Len(body) + 1 ELSE CHOOSE i \in dots : TRUE
        ds    == SelectSeq(body, LAMBDA c : c # ".")
        valid == /\ Cardinality(dots) <= 1
                 /\ ds # <<>>
                 /\ \A i \in 1..Len(ds) : ds[i] \in Digits
        mag   == DigitsVal(0, ds)
        frac  == IF dots = {} THEN 0 ELSE Len(body) - dot
    IN  IF valid
        THEN [ok |-> TRUE,
              val |-> Rat(IF sgn /\ Head(t) = "-" THEN -mag ELSE mag, Pow10(frac))]
        ELSE [ok |-> FALSE, val |-> NaN]

-----------------------------------------------------------------------------
(* Translation tables                                                       *)

RECORD_DTYPE ==
    <<"latitude", "longitude", "altitude", "temperature", "pressure",
      "humidity", "precipitation", "wind_direction_x", "wind_direction_y",
      "wind_speed", "wind_speed_max">>

RecordFields == {RECORD_DTYPE[i] : i \in 1..Len(RECORD_DTYPE)}

T_STATION == <<"S", "T", "A", "T", "I", "O", "N">>
T_Station == <<"S", "t", "a", "t", "i", "o", "n">>
T_HOEHE   == <<"H", "Ö", "H", "E">>
T_LUFTD   == <<"L", "U", "F", "T", "D", ".">>
T_TEMP    == <<"T", "E", "M", "P", ".">>
T_U       == <<"U", "%">>
T_RR1     == <<"R", "R", "1">>
T_RR30    == <<"R", "R", "3", "0">>
T_DD      == <<"D", "D">>
T_FF      == <<"F", "F">>
T_FX      == <<"F", "X">>

Plain(name) == [tuple |-> FALSE, name |-> name, scale |-> NaN]
Scaled(name, scale) == [tuple |-> TRUE, name |-> name, scale |-> scale]

\* 1.0 / 3.6
KmhToMs == Rat(10, 36)

DWD_KEY_MAP ==
    (T_STATION :> Plain("station")) @@
    (T_Station :> Plain("station")) @@
    (T_HOEHE   :> Plain("altitude")) @@
    (T_LUFTD   :> Plain("pressure")) @@
    (T_TEMP    :> Plain("temperature")) @@
    (T_U       :> Plain("humidity")) @@
    (T_RR1     :> Plain("precipitation")) @@
    (T_RR30    :> Scaled("precipitation", Num(2))) @@
    (T_DD      :> Plain("wind_direction")) @@
    (T_FF      :> Scaled("wind_speed", KmhToMs)) @@
    (T_FX      :> Scaled("wind_speed_max", KmhToMs))

D_N  == <<"N">>
D_NO == <<"N", "O">>
D_O  == <<"O">>
D_SO == <<"S", "O">>
D_S  == <<"S">>
D_SW == <<"S", "W">>
D_W  == <<"W">>
D_NW == <<"N", "W">>

DWD_DIRECTION_MAP ==
    (D_N  :> <<Num(0), Num(1)>>) @@
    (D_NO :> <<Rat(71, 100), Rat(71, 100)>>) @@
    (D_O  :> <<Num(1), Num(0)>>) @@
    (D_SO :> <<Rat(71, 100), Rat(-71, 100)>>) @@
    (D_S  :> <<Num(0), Num(-1)>>) @@
    (D_SW :> <<Rat(-71, 100), Rat(-71, 100)>>) @@
    (D_W  :> <<Num(-1), Num(0)>>) @@
    (D_NW :> <<Rat(71, 100), Rat(-71, 100)>>)

S_Kiel  == <<"K", "i", "e", "l">>
S_Emden == <<"E", "m", "d", "e", "n">>

\* (altitude, latitude, longitude); two of the stations of the table
DWD_STATION_LOCATION_MAP ==
    (S_Kiel  :> <<Num(27), Rat(5438, 100), Rat(1014, 100)>>) @@
    (S_Emden :> <<Num(0), Rat(5339, 100), Rat(723, 100)>>)

-----------------------------------------------------------------------------
(* The normalisation in PyDWDApi.query                                      *)

\* np.zeros(..., dtype=RECORD_DTYPE): one row of the array
ZeroRecord == [f \in RecordFields |-> Num(0)]

\* Translate the table header (row zero): the lists header and scale
RECURSIVE TranslateHeader(_, _, _)
TranslateHeader(cols, header, scale) ==
    IF cols = <<>> THEN [header |-> header, scale |-> scale]
    ELSE LET col == Head(cols)
         IN  IF col \in DOMAIN DWD_KEY_MAP
             THEN LET m == DWD_KEY_MAP[col]
                  IN  IF m.tuple
                      THEN TranslateHeader(Tail(cols), Append(header, m.name),
                                           Append(scale, m.scale))
                      ELSE TranslateHeader(Tail(cols), Append(header, m.name),
                                           Append(scale, Num(1)))
             ELSE TranslateHeader(Tail(cols), Append(header, None), scale)

\* res[name][j] = float(col) * scale[i], NaN on any exception
ScaledCell(col, scale, i) ==
    LET pf == ParseFloat(col)
    IN  IF pf.ok /\ i <= Len(scale) THEN Mul(pf.val, scale[i]) ELSE NaN

\* The body of the loop over the cells of one row
WriteCell(rec, name, col, scale, i) ==
    IF name = "station"
    THEN IF col \in DOMAIN DWD_STATION_LOCATION_MAP
         THEN [rec EXCEPT !["latitude"] = DWD_STATION_LOCATION_MAP[col][2],
                          !["longitude"] = DWD_STATION_LOCATION_MAP[col][3],
                          !["altitude"] = DWD_STATION_LOCATION_MAP[col][1]]
         ELSE [rec EXCEPT !["latitude"] = NaN,
                          !["longitude"] = NaN,
                          !["altitude"] = NaN]
    ELSE IF name = "wind_direction"
    THEN IF col \in DOMAIN DWD_DIRECTION_MAP
         THEN [rec EXCEPT !["wind_direction_x"] = DWD_DIRECTION_MAP[col][1],
                          !["wind_direction_y"] = DWD_DIRECTION_MAP[col][2]]
         ELSE [rec EXCEPT !["wind_direction_x"] = NaN,
                          !["wind_direction_y"] = NaN]
    ELSE [rec EXCEPT ![name] = ScaledCell(col, scale, i)]

RECURSIVE NormalizeRow(_, _, _, _)
NormalizeRow(rec, row, H, i) ==
    IF i > Len(row) THEN rec
    ELSE IF i > Len(H.header) \/ H.header[i] = None
    THEN NormalizeRow(rec, row, H, i + 1)
    ELSE NormalizeRow(WriteCell(rec, H.header[i], row[i], H.scale, i),
                      row, H, i + 1)

\* tbl = p.tables[0], len(tbl) >= 1: the array res of len(tbl) - 1 records
Normalize(t) ==
    LET H == TranslateHeader(t[1], <<>>, <<>>)
    IN  [j \in 1..(Len(t) - 1) |-> NormalizeRow(ZeroRecord, t[j + 1], H, 1)]

-----------------------------------------------------------------------------
(* Normalisation specification: a header and one data row are drawn, then   *)
(* normalised.                                                              *)

MaxCols == 3

T_XX == <<"X", "X">>
C_4 == <<"4">>
C_Dashes == <<"-", "-">>

NormHeaderTokens == {T_STATION, T_HOEHE, T_TEMP, T_RR30, T_XX}
NormCellTexts == {S_Kiel, C_4, C_Dashes}

SeqsUpTo(S, n) == UNION {[1..k -> S] : k \in 0..n}

InitNorm ==
    /\ parser = NewParser
    /\ doc = NewDoc
    /\ \E h \in SeqsUpTo(NormHeaderTokens, MaxCols) :
           \E r \in SeqsUpTo(NormCellTexts, MaxCols) :
               tbl = Some(<<h, r>>)
    /\ res = PyNone
    /\ ApiAtStart

NormalizeTable ==
    /\ res = PyNone
    /\ res' = Some(Normalize(tbl[1]))
    /\ UNCHANGED <<parserVars, tbl, apiVars>>

NextNorm == NormalizeTable

SpecNorm == InitNorm /\ [][NextNorm]_vars

\* The fields a column of the given canonical name writes.
FieldsWritten(name) ==
    CASE name = "station" -> {"latitude", "longitude", "altitude"}
      [] name = "wind_direction" -> {"wind_direction_x", "wind_direction_y"}
      [] OTHER -> {name}

\* The columns of a row that have a mapped header token.
MappedColumns(header, row) ==
    {i \in 1..Len(row) : i <= Len(header) /\ header[i] \in DOMAIN DWD_KEY_MAP}

ScaleOfToken(tok) ==
    IF DWD_KEY_MAP[tok].tuple THEN DWD_KEY_MAP[tok].scale ELSE Num(1)

\* C4: a column mapped to (field, scale), field a plain numeric field and no
\* later column of the row writing that field, leaves v * scale in the field
\* when the cell parses as v (scale of that same token) and NaN when not.
C4_ScaledOrNaN ==
    res # PyNone =>
        LET header == tbl[1][1]
            row    == tbl[1][2]
            rec    == res[1][1]
            cols   == MappedColumns(header, row)
        IN  \A i \in cols :
                LET name == DWD_KEY_MAP[header[i]].name
                    pf   == ParseFloat(row[i])
                IN  (/\ name \notin {"station", "wind_direction"}
                     /\ \A k \in cols : k > i =>
                            name \notin FieldsWritten(DWD_KEY_MAP[header[k]].name))
                    => rec[name] = IF pf.ok
                                   THEN Mul(pf.val, ScaleOfToken(header[i]))
                                   ELSE NaN

StationColumns(header, row) ==
    {i \in MappedColumns(header, row) : DWD_KEY_MAP[header[i]].name = "station"}

\* C5: in the record of a row that has a station cell, latitude, longitude and
\* altitude are the three values of the StationLocation entry of a station
\* cell of the row, or all three NaN.
C5_LocationAtomic ==
    (res # PyNone /\ StationColumns(tbl[1][1], tbl[1][2]) # {}) =>
        LET header == tbl[1][1]
            row    == tbl[1][2]
            rec    == res[1][1]
            cols   == MappedColumns(header, row)
        IN  \/ /\ IsNaN(rec["latitude"])
               /\ IsNaN(rec["longitude"])
               /\ IsNaN(rec["altitude"])
            \/ \E i \in cols :
                   /\ DWD_KEY_MAP[header[i]].name = "station"
                   /\ row[i] \in DOMAIN DWD_STATION_LOCATION_MAP
                   /\ rec["altitude"] = DWD_STATION_LOCATION_MAP[row[i]][1]
                   /\ rec["latitude"] = DWD_STATION_LOCATION_MAP[row[i]][2]
                   /\ rec["longitude"] = DWD_STATION_LOCATION_MAP[row[i]][3]

\* C6: a record field that no mapped column of the row writes is NaN.
C6_DefaultNaN ==
    res # PyNone =>
        LET header == tbl[1][1]
            row    == tbl[1][2]
            rec    == res[1][1]
            cols   == MappedColumns(header, row)
        IN  \A f \in RecordFields :
                (\A i \in cols : f \notin FieldsWritten(DWD_KEY_MAP[header[i]].name))
                => IsNaN(rec[f])

-----------------------------------------------------------------------------
(* Wind direction specification: a header and one data row of compass codes *)
(* are drawn, then normalised.                                              *)

MaxDirCols == 2

DirHeaderTokens == {T_DD, T_FF, T_XX}
DirCellTexts == DOMAIN DWD_DIRECTION_MAP \cup {C_Dashes}

InitDirection ==
    /\ parser = NewParser
    /\ doc = NewDoc
    /\ \E h \in SeqsUpTo(DirHeaderTokens, MaxDirCols) :
           \E r \in SeqsUpTo(DirCellTexts, MaxDirCols) :
               tbl = Some(<<h, r>>)
    /\ res = PyNone
    /\ ApiAtStart

SpecDirection == InitDirection /\ [][NextNorm]_vars

Sign(x) == IF x[1] > 0 THEN 1 ELSE IF x[1] < 0 THEN -1 ELSE 0

\* The east-west and north-south parts of a compass code.
XSignOfCode(code) ==
    IF \E i \in 1..Len(code) : code[i] = "O" THEN 1
    ELSE IF \E i \in 1..Len(code) : code[i] = "W" THEN -1 ELSE 0

YSignOfCode(code) ==
    IF \E i \in 1..Len(code) : code[i] = "N" THEN 1
    ELSE IF \E i \in 1..Len(code) : code[i] = "S" THEN -1 ELSE 0

\* The last wind direction column of a row: the one whose write stays.
DirectionColumns(header, row) ==
    {i \in MappedColumns(header, row) :
        DWD_KEY_MAP[header[i]].name = "wind_direction"}

\* C11: a record whose wind direction cell holds one of the 8 compass codes
\* gets in wind_direction_x/y the vector pointing in that direction: x
\* positive with an east part (O), negative with a west part (W), else 0; y
\* positive with a north part (N), negative with a south part (S), else 0;
\* and no other code has that vector.
C11_DirectionVector ==
    (res # PyNone /\ DirectionColumns(tbl[1][1], tbl[1][2]) # {}) =>
        LET header == tbl[1][1]
            row    == tbl[1][2]
            rec    == res[1][1]
            cols   == DirectionColumns(header, row)
            last   == CHOOSE i \in cols : \A k \in cols : k <= i
            code   == row[last]
            v      == <<rec["wind_direction_x"], rec["wind_direction_y"]>>
        IN  code \in DOMAIN DWD_DIRECTION_MAP =>
                /\ ~IsNaN(v[1]) /\ ~IsNaN(v[2])
                /\ Sign(v[1]) = XSignOfCode(code)
                /\ Sign(v[2]) = YSignOfCode(code)
                /\ \A other \in DOMAIN DWD_DIRECTION_MAP :
                       other # code => DWD_DIRECTION_MAP[other] # v

-----------------------------------------------------------------------------
(* The Remote Data Source: directory listings and file contents             *)

U_HTML == <<"_", "U", "_", "H", "T", "M", "L">>

EndsWith(s, suffix) ==
    /\ Len(s) >= Len(suffix)
    /\ SubSeq(s, Len(s) - Len(suffix) + 1, Len(s)) = suffix

F_A == <<"A">> \o U_HTML
F_B == <<"B">> \o U_HTML
F_C == <<"C", "_", "S", "_", "H", "T", "M", "L">>

\* Modification times the server reports, already converted to Unix time:
\* one that is a refresh interval old when the object is constructed, and
\* one that is not.
MTimes == {StartTime - timeout, StartTime}

MaxEntries == 3

\* The entries a listing may hold: (name, facts["modify"])
Entries ==
    {[name |-> n, modify |-> m] : n \in {F_A, F_B}, m \in MTimes}
        \cup {[name |-> F_C, modify |-> StartTime]}

\* The listings mlsd() may yield: any order, no name twice.
Listings ==
    {l \in SeqsUpTo(Entries, MaxEntries) :
        \A i, j \in 1..Len(l) : l[i].name = l[j].name => i = j}

StartTag(tag) == [type |-> "start", arg |-> tag]
EndTag(tag) == [type |-> "end", arg |-> tag]
Text(s) == [type |-> "data", arg |-> s]

CellMarkup(tag, s) == <<StartTag(tag), Text(s), EndTag(tag)>>

RECURSIVE CellsMarkup(_, _)
CellsMarkup(tag, cells) ==
    IF cells = <<>> THEN <<>>
    ELSE CellMarkup(tag, Head(cells)) \o CellsMarkup(tag, Tail(cells))

RowMarkup(tag, cells) ==
    <<StartTag("tr")>> \o CellsMarkup(tag, cells) \o <<EndTag("tr")>>

TableMarkup(rows) == <<StartTag("table")>> \o rows \o <<EndTag("table")>>

C_1013 == <<"1", "0", "1", "3">>
C_5_3 == <<"5", ".", "3">>

\* The file contents RETR may deliver, as the events feed() dispatches.
DocNoTable == <<Text(<<"x">>)>>
DocEmptyTable == TableMarkup(<<>>)
DocHeaderOnly == TableMarkup(RowMarkup("th", <<T_STATION, T_TEMP>>))
DocNoTemp ==
    TableMarkup(RowMarkup("th", <<T_STATION, T_TEMP, T_LUFTD>>)
                \o RowMarkup("td", <<S_Kiel, C_Dashes, C_1013>>)
                \o RowMarkup("td", <<S_Emden, C_Dashes, C_1013>>))
DocKiel ==
    TableMarkup(RowMarkup("th", <<T_STATION, T_TEMP>>)
                \o RowMarkup("td", <<S_Kiel, C_5_3>>))

Contents == {DocNoTable, DocEmptyTable, DocHeaderOnly, DocNoTemp, DocKiel}

\* The answers drawn from when two callers interleave or a request runs its
\* nine calls of query(): one file, old or new, or none.
FewListings ==
    {<<>>} \cup {<<[name |-> F_A, modify |-> m]>> : m \in MTimes}
FewContents == {DocNoTable, DocHeaderOnly, DocNoTemp}

ListingsOf(answers) == IF answers = "all" THEN Listings ELSE FewListings
ContentsOf(answers) == IF answers = "all" THEN Contents ELSE FewContents

-----------------------------------------------------------------------------
(* PyDWDApi.query                                                           *)

\* The loop with the comparison of the modification times turned round
RECURSIVE SelectLeastRecent(_, _)
SelectLeastRecent(ls, most_recent) ==
    IF ls = <<>> THEN most_recent
    ELSE LET entry == Head(ls)
         IN  IF /\ EndsWith(entry.name, U_HTML)
                /\ \/ most_recent = PyNone
                   \/ entry.modify < most_recent[1].modify
             THEN SelectLeastRecent(Tail(ls), Some(entry))
             ELSE SelectLeastRecent(Tail(ls), most_recent)

\* The loop over the listing: the entry it leaves in most_recent
RECURSIVE SelectMostRecent(_, _)
SelectMostRecent(ls, most_recent) ==
    IF ls = <<>> THEN most_recent
    ELSE LET entry == Head(ls)
         IN  IF /\ EndsWith(entry.name, U_HTML)
                /\ \/ most_recent = PyNone
                   \/ entry.modify > most_recent[1].modify
             THEN SelectMostRecent(Tail(ls), Some(entry))
             ELSE SelectMostRecent(Tail(ls), most_recent)

Refreshing == {"list", "retr", "store", "store2"}

\* A caller starts a call of query().
CallQuery(t) ==
    /\ th[t].pc = "idle"
    /\ th' = [th EXCEPT ![t] = [IdleCaller EXCEPT !.pc = "begin",
                                                  !.kind = "query"]]
    /\ UNCHANGED <<parserVars, normVars, now, current_data,
                   current_data_modification, last_refresh, refreshed,
                   remote>>

\* now = time.time() and the test of the age of the cached data
QueryBegin(t) ==
    /\ th[t].pc = "begin"
    /\ IF (now - current_data_modification < timeout) /\ current_data # PyNone
       THEN th' = [th EXCEPT ![t].t_now = now,
                             ![t].ret = Value(current_data),
                             ![t].pc = "ret"]
       ELSE th' = [th EXCEPT ![t].t_now = now, ![t].pc = "list"]
    /\ UNCHANGED <<parserVars, normVars, now, current_data,
                   current_data_modification, last_refresh, refreshed,
                   remote>>

\* connect, login, mlsd and the choice of the most recent "_U_HTML" entry;
\* any of the three FTP calls may raise.
ListDir(t) ==
    /\ th[t].pc = "list"
    /\ \/ th' = [th EXCEPT ![t].ret = Raised, ![t].pc = "ret"]
       \/ \E ls \in ListingsOf(remote) :
              LET most_recent == SelectMostRecent(ls, PyNone)
              IN  IF most_recent = PyNone
                  THEN th' = [th EXCEPT ![t].ls = Some(ls),
                                        ![t].ret = Value(PyNone),
                                        ![t].pc = "ret"]
                  ELSE th' = [th EXCEPT ![t].ls = Some(ls),
                                        ![t].most_recent = most_recent,
                                        ![t].pc = "retr"]
    /\ UNCHANGED <<parserVars, normVars, now, current_data,
                   current_data_modification, last_refresh, refreshed,
                   remote>>

\* retrlines (may raise), the parse of the content and the normalisation of
\* the first table
Retrieve(t) ==
    /\ th[t].pc = "retr"
    /\ \/ th' = [th EXCEPT ![t].fetched = Some(th[t].most_recent[1].name),
                           ![t].ret = Raised, ![t].pc = "ret"]
       \/ \E content \in ContentsOf(remote) :
              LET tables == ParseTables(content)
              IN  IF Len(tables) = 0 \/ Len(tables[1]) = 0
                  THEN th' = [th EXCEPT
                                 ![t].fetched = Some(th[t].most_recent[1].name),
                                 ![t].tables = Some(tables),
                                 ![t].ret = Value(PyNone),
                                 ![t].pc = "ret"]
                  ELSE th' = [th EXCEPT
                                 ![t].fetched = Some(th[t].most_recent[1].name),
                                 ![t].tables = Some(tables),
                                 ![t].res = Some(Normalize(tables[1])),
                                 ![t].pc = "store"]
    /\ UNCHANGED <<parserVars, normVars, now, current_data,
                   current_data_modification, last_refresh, refreshed,
                   remote>>

\* self.current_data = res
StoreData(t) ==
    /\ th[t].pc = "store"
    /\ current_data' = th[t].res
    /\ th' = [th EXCEPT ![t].pc = "store2"]
    /\ UNCHANGED <<parserVars, normVars, now, current_data_modification,
                   last_refresh, refreshed, remote>>

\* The second store with the wall clock read at the start of the call in
\* place of the modification time of the file
StoreModificationWallClock(t) ==
    /\ th[t].pc = "store2"
    /\ current_data_modification' = th[t].t_now
    /\ last_refresh' = th[t].t_now
    /\ refreshed' = refreshed \cup {<<th[t].res, th[t].most_recent[1].modify>>}
    /\ th' = [th EXCEPT ![t].ret = Value(th[t].res), ![t].pc = "ret"]
    /\ UNCHANGED <<parserVars, normVars, now, current_data, remote>>

\* self.current_data_modification = most_recent[1]["modify"]; return res
StoreModification(t) ==
    /\ th[t].pc = "store2"
    /\ current_data_modification' = th[t].most_recent[1].modify
    /\ last_refresh' = th[t].t_now
    /\ refreshed' = refreshed \cup {<<th[t].res, th[t].most_recent[1].modify>>}
    /\ th' = [th EXCEPT ![t].ret = Value(th[t].res), ![t].pc = "ret"]
    /\ UNCHANGED <<parserVars, normVars, now, current_data, remote>>

\* The caller of a plain query() has its result and leaves.
QueryDone(t) ==
    /\ th[t].pc = "ret"
    /\ th[t].kind = "query"
    /\ th' = [th EXCEPT ![t] = IdleCaller]
    /\ UNCHANGED <<parserVars, normVars, now, current_data,
                   current_data_modification, last_refresh, refreshed,
                   remote>>

MaxTicks == 2

\* The wall clock advances by half a refresh interval.
Tick ==
    /\ now < StartTime + MaxTicks * (timeout \div 2)
    /\ now' = now + (timeout \div 2)
    /\ UNCHANGED <<parserVars, normVars, current_data,
                   current_data_modification, th, last_refresh, refreshed,
                   remote>>

-----------------------------------------------------------------------------
(* PyDWDApi.interpolate and WeatherHTTPRequestHandler.do_GET                *)

\* _data_filter: the rows with a location and a value for key
DataFilter(data, key) ==
    {j \in 1..Len(data) :
        ~(\/ IsNaN(data[j]["altitude"])
          \/ IsNaN(data[j]["latitude"])
          \/ IsNaN(data[j]["longitude"])
          \/ IsNaN(data[j][key]))}

\* rbfi(lats, lons, alts)[0]: the value of the interpolant fitted to the
\* given rows; scipy's Rbf is not modelled, the value stands for itself.
RbfValue(data, key, flt) ==
    [key |-> key,
     nodes |-> SelectSeq([j \in 1..Len(data) |->
                             [row |-> j, lat |-> data[j]["latitude"],
                              lon |-> data[j]["longitude"],
                              alt |-> data[j]["altitude"],
                              value |-> data[j][key]]],
                         LAMBDA n : n.row \in flt)]

\* interpolate without the test of flt.any(): Rbf raises on no rows
interpolate_unchecked(data, key) ==
    LET flt == DataFilter(data, key)
    IN  IF flt = {} THEN Raised ELSE Value(Some(RbfValue(data, key, flt)))

\* interpolate(key, [lat], [lon], [alt], data) for data that is an array
interpolate(data, key) ==
    LET flt == DataFilter(data, key)
    IN  IF flt = {} THEN Value(PyNone)
        ELSE Value(Some(RbfValue(data, key, flt)))

\* The keys do_GET interpolates, in its order.
GetKeys ==
    <<"temperature", "pressure", "humidity", "precipitation", "wind_speed",
      "wind_speed_max", "wind_direction_x", "wind_direction_y">>

\* The key of the response a record key is written to.
TargetKey ==
    [temperature |-> "temp", pressure |-> "pressure", humidity |-> "humidity",
     precipitation |-> "precipitation", wind_speed |-> "speed",
     wind_speed_max |-> "max"]

\* The response dictionary after the eight interpolations: "main" and "wind"
\* hold the keys whose interpolation is not None, "deg" needs both wind
\* components.
ResponseOf(dt, vals) ==
    LET written == {k \in 1..6 : vals[k].val # PyNone}
        plain   == {TargetKey[GetKeys[k]] : k \in written}
        deg     == vals[7].val # PyNone /\ vals[8].val # PyNone
        fieldOf(name) ==
            IF name = "deg"
            THEN [x |-> vals[7].val[1], y |-> vals[8].val[1]]
            ELSE LET k == CHOOSE k \in written : TargetKey[GetKeys[k]] = name
                 IN  vals[k].val[1]
    IN  [status |-> 200, dt |-> dt,
         fields |-> [name \in plain \cup (IF deg THEN {"deg"} ELSE {})
                         |-> fieldOf(name)]]

ErrorResponse(code) == [status |-> code, dt |-> 0, fields |-> <<>>]

\* The requests a client may send: a good one, a wrong path, a wrong query.
Requests == {"ok", "badpath", "badquery"}

\* do_GET up to its call of api.query(): the response dictionary is built
\* with "dt", then the URL and the query string are checked.
GetBegin(t, req) ==
    /\ th[t].pc = "idle"
    /\ th' = [th EXCEPT ![t] =
                 IF req = "badpath"
                 THEN [IdleCaller EXCEPT !.kind = "GET", !.pc = "done",
                                         !.dt = current_data_modification,
                                         !.resp = Some(ErrorResponse(404))]
                 ELSE IF req = "badquery"
                 THEN [IdleCaller EXCEPT !.kind = "GET", !.pc = "done",
                                         !.dt = current_data_modification,
                                         !.resp = Some(ErrorResponse(400))]
                 ELSE [IdleCaller EXCEPT !.kind = "GET", !.pc = "begin",
                                         !.stage = "query",
                                         !.dt = current_data_modification]]
    /\ UNCHANGED <<parserVars, normVars, now, current_data,
                   current_data_modification, last_refresh, refreshed,
                   remote>>

\* The locals of a finished call of query(), cleared for the next call.
ClearQuery(c) ==
    [c EXCEPT !.t_now = 0, !.ls = PyNone, !.most_recent = PyNone,
              !.fetched = PyNone, !.tables = PyNone, !.res = PyNone,
              !.ret = Value(PyNone)]

\* The eight interpolations on the array data; an exception of one of them
\* leaves do_GET with a 500 response.
InterpolateAll(c, data) ==
    LET vals == [k \in 1..Len(GetKeys) |-> interpolate(data, GetKeys[k])]
    IN  IF \E k \in 1..Len(GetKeys) : vals[k].kind = "raise"
        THEN [c EXCEPT !.pc = "done", !.resp = Some(ErrorResponse(500))]
        ELSE [c EXCEPT !.pc = "done", !.vals = vals,
                       !.resp = Some(ResponseOf(c.dt, vals))]

\* do_GET after data = api.query(): with an array the eight interpolations
\* run on it; with None the first interpolate() calls query() itself.
GetAfterQuery(t) ==
    /\ th[t].pc = "ret"
    /\ th[t].kind = "GET"
    /\ th[t].stage = "query"
    /\ LET c == th[t]
       IN  th' = [th EXCEPT ![t] =
                     IF c.ret.kind = "raise"
                     THEN [c EXCEPT !.pc = "done",
                                    !.resp = Some(ErrorResponse(500))]
                     ELSE IF c.ret.val # PyNone
                     THEN InterpolateAll([c EXCEPT !.data = c.ret.val],
                                         c.ret.val[1])
                     ELSE [ClearQuery(c) EXCEPT !.pc = "begin",
                                                !.stage = "interpolate",
                                                !.k = 1]]
    /\ UNCHANGED <<parserVars, normVars, now, current_data,
                   current_data_modification, last_refresh, refreshed,
                   remote>>

\* interpolate(key) of do_GET when its data is None, after the query() that
\* interpolate called: None again is a TypeError in _data_filter, an array
\* gives the value of this key, and the next key calls query() again.
GetAfterInterpolateQuery(t) ==
    /\ th[t].pc = "ret"
    /\ th[t].kind = "GET"
    /\ th[t].stage = "interpolate"
    /\ LET c == th[t]
           v == interpolate(c.ret.val[1], GetKeys[c.k])
       IN  th' = [th EXCEPT ![t] =
                     IF c.ret.kind = "raise" \/ c.ret.val = PyNone
                     THEN [c EXCEPT !.pc = "done",
                                    !.resp = Some(ErrorResponse(500))]
                     ELSE IF v.kind = "raise"
                     THEN [c EXCEPT !.pc = "done",
                                    !.resp = Some(ErrorResponse(500))]
                     ELSE IF c.k = Len(GetKeys)
                     THEN [c EXCEPT !.pc = "done",
                                    !.vals = Append(c.vals, v),
                                    !.resp = Some(ResponseOf(c.dt, Append(c.vals, v)))]
                     ELSE [ClearQuery(c) EXCEPT !.pc = "begin",
                                                !.vals = Append(c.vals, v),
                                                !.k = c.k + 1]]
    /\ UNCHANGED <<parserVars, normVars, now, current_data,
                   current_data_modification, last_refresh, refreshed,
                   remote>>

\* The response is written; the handler returns.
GetDone(t) ==
    /\ th[t].pc = "done"
    /\ th' = [th EXCEPT ![t] = IdleCaller]
    /\ UNCHANGED <<parserVars, normVars, now, current_data,
                   current_data_modification, last_refresh, refreshed,
                   remote>>

-----------------------------------------------------------------------------

\* The idle parser and normalisation of the specifications of the cache.
OthersIdle ==
    /\ parser = NewParser
    /\ doc = NewDoc
    /\ tbl = PyNone
    /\ res = PyNone

\* One caller at a time calls query(); the Remote Data Source may answer
\* with any listing and any content.
Init == OthersIdle /\ ApiInit(OneCaller, "all")

Next ==
    \/ Tick
    \/ \E t \in DOMAIN th : CallQuery(t)
    \/ \E t \in DOMAIN th : QueryBegin(t)
    \/ \E t \in DOMAIN th : ListDir(t)
    \/ \E t \in DOMAIN th : Retrieve(t)
    \/ \E t \in DOMAIN th : StoreData(t)
    \/ \E t \in DOMAIN th : StoreModification(t)
    \/ \E t \in DOMAIN th : QueryDone(t)

Spec == Init /\ [][Next]_vars

\* Two callers use the object at the same time.
InitConcurrent == OthersIdle /\ ApiInit(TwoCallers, "few")

SpecConcurrent == InitConcurrent /\ [][Next]_vars

\* The HTTP server: one request at a time, after the query() of the main
\* program.
InitHttp == OthersIdle /\ ApiInit(OneCaller, "few")

NextHttp ==
    \/ Next
    \/ \E t \in DOMAIN th : \E req \in Requests : GetBegin(t, req)
    \/ \E t \in DOMAIN th : GetAfterQuery(t)
    \/ \E t \in DOMAIN th : GetAfterInterpolateQuery(t)
    \/ \E t \in DOMAIN th : GetDone(t)

SpecHttp == InitHttp /\ [][NextHttp]_vars

-----------------------------------------------------------------------------
(* Claims about the cache                                                   *)

\* The cache holds an array with records.
HasCachedRecords == current_data # PyNone /\ current_data[1] # <<>>

\* C1: a call of query() that starts less than the refresh interval after
\* the start of a call that refreshed the cache (with records) does no
\* listing and no fetch and returns the cached array, whatever modification
\* time the file had.
C1_NoRefetchWithinInterval ==
    [][\A t \in DOMAIN th :
          (/\ th[t].pc = "begin"
           /\ th'[t].pc # "begin"
           /\ HasCachedRecords
           /\ last_refresh >= 0
           /\ now - last_refresh < timeout)
          => (/\ th'[t].pc = "ret"
              /\ th'[t].ret = Value(current_data))]_vars

\* C2: a call whose refresh fails (no "_U_HTML" entry, no table, an FTP
\* error) returns the cached array when there is one; the failure reaches
\* the caller only when there is none.
C2_FailureServesCache ==
    [][\A t \in DOMAIN th :
          (th[t].pc \in {"list", "retr"} /\ th'[t].pc = "ret")
          => IF HasCachedRecords
             THEN th'[t].ret = Value(current_data)
             ELSE th'[t].ret \in {Raised, Value(PyNone)}]_vars

\* C3: of the calls that started a refresh interval or more after the start
\* of the latest refreshing call, at most one is refreshing at any moment.
C3_SingleFlight ==
    Cardinality({t \in DOMAIN th :
                    /\ th[t].pc \in Refreshing
                    /\ last_refresh >= 0
                    /\ th[t].t_now - last_refresh >= timeout}) <= 1

NoDataRows(tables) == Len(tables) = 0 \/ Len(tables[1]) <= 1

\* C7: a call whose fetched content has no table, or a first table without
\* data rows, returns None and never reaches the stores to the cache.
C7_NoDataOnEmptyTable ==
    \A t \in DOMAIN th :
        (th[t].tables # PyNone /\ NoDataRows(th[t].tables[1]))
        => th[t].pc = "ret" /\ th[t].ret = Value(PyNone)

Matches(ls) == {i \in 1..Len(ls) : EndsWith(ls[i].name, U_HTML)}

\* C8: after any listing, the entry retrieved ends with "_U_HTML" and no
\* entry with that suffix has a greater modification time; without such an
\* entry the call returns None and retrieves nothing.
C8_MostRecentSelected ==
    \A t \in DOMAIN th :
        th[t].ls # PyNone =>
            LET ls == th[t].ls[1]
            IN  IF Matches(ls) = {}
                THEN /\ th[t].pc = "ret"
                     /\ th[t].ret = Value(PyNone)
                     /\ th[t].most_recent = PyNone
                     /\ th[t].fetched = PyNone
                ELSE \E i \in Matches(ls) :
                        /\ th[t].most_recent = Some(ls[i])
                        /\ \A j \in Matches(ls) : ls[i].modify >= ls[j].modify
                        /\ IF th[t].pc = "retr"
                           THEN th[t].fetched = PyNone
                           ELSE th[t].fetched = Some(ls[i].name)

\* A listing of three entries, the first without the suffix and as new as
\* any, the third newer than the second, and the third retrieved.
C8_Witness ==
    \E t \in DOMAIN th :
        /\ th[t].ls # PyNone
        /\ Len(th[t].ls[1]) = 3
        /\ Matches(th[t].ls[1]) = {2, 3}
        /\ th[t].ls[1][1].modify >= th[t].ls[1][3].modify
        /\ th[t].ls[1][3].modify > th[t].ls[1][2].modify
        /\ th[t].fetched = Some(th[t].ls[1][3].name)

\* C10: a request served from an array gets a 200 response; a key without
\* eligible rows interpolates to None and is left out, every key with
\* eligible rows is present.
C10_UnavailableOmitted ==
    \A t \in DOMAIN th :
        (th[t].resp # PyNone /\ th[t].data # PyNone) =>
            LET data == th[t].data[1]
                r    == th[t].resp[1]
                has(i) == DataFilter(data, GetKeys[i]) # {}
            IN  /\ r.status = 200
                /\ \A k \in 1..Len(GetKeys) :
                       ~has(k) => th[t].vals[k] = Value(PyNone)
                /\ \A k \in 1..6 :
                       has(k) <=> TargetKey[GetKeys[k]] \in DOMAIN r.fields
                /\ (has(7) /\ has(8)) <=> "deg" \in DOMAIN r.fields

\* A response without "temp", for want of eligible rows, and with "pressure".
C10_Witness ==
    \E t \in DOMAIN th :
        /\ th[t].resp # PyNone
        /\ th[t].data # PyNone
        /\ Len(th[t].data[1]) = 2
        /\ DataFilter(th[t].data[1], "temperature") = {}
        /\ th[t].resp[1].status = 200
        /\ "temp" \notin DOMAIN th[t].resp[1].fields
        /\ "pressure" \in DOMAIN th[t].resp[1].fields

\* No call of query() is between its two assignments to the cache.
NoStoreUnderWay == \A t \in DOMAIN th : th[t].pc # "store2"

\* The cache is as constructed, or holds the array and the modification time
\* that one and the same call stored.
PairOfOneRefresh ==
    \/ current_data = PyNone /\ current_data_modification = 0
    \/ <<current_data, current_data_modification>> \in refreshed

\* A call that leaves its refresh with None or an exception changes neither
\* member of the cache.
FailedRefreshKeepsPair ==
    \A t \in DOMAIN th :
        (/\ th[t].pc \in Refreshing
         /\ th'[t].pc = "ret"
         /\ th'[t].ret \in {Raised, Value(PyNone)})
        => UNCHANGED <<current_data, current_data_modification>>

\* C12: whenever no call is between its two assignments to the cache, the
\* pair (current_data, current_data_modification) is the initial (None, 0) or
\* the record array and the upstream modification time of one and the same
\* refresh that stored, and a refresh that fails or raises leaves both members
\* unchanged.
C12_PairConsistent ==
    /\ [](NoStoreUnderWay => PairOfOneRefresh)
    /\ [][FailedRefreshKeepsPair]_vars

\* A refresh has failed while the cache holds records, after two refreshes
\* that stored different pairs.
C12_Witness ==
    /\ NoStoreUnderWay
    /\ HasCachedRecords
    /\ Cardinality(refreshed) >= 2
    /\ \E t \in DOMAIN th :
           /\ th[t].pc = "ret"
           /\ th[t].ret \in {Raised, Value(PyNone)}
           /\ th[t].t_now > 0

\* C13: in a 200 response with interpolated fields, computed from the array
\* that do_GET's call of query() returned, "dt" is the modification time of
\* that array: the one the call stored with it when the call refreshed the
\* cache, the one of the cache when the call was served from it.
C13_DtOfRecordSetUsed ==
    \A t \in DOMAIN th :
        (/\ th[t].pc = "done"
         /\ th[t].resp # PyNone
         /\ th[t].data # PyNone
         /\ th[t].resp[1].status = 200
         /\ DOMAIN th[t].resp[1].fields # {})
        => IF th[t].res # PyNone
           THEN th[t].resp[1].dt = th[t].most_recent[1].modify
           ELSE /\ th[t].resp[1].dt = current_data_modification
                /\ <<th[t].data, th[t].resp[1].dt>> \in refreshed

====
